---- MODULE Spec2Model ----
(***************************************************************************)
(* State-machine model of the TauriVision front end:                       *)
(*   - RecognitionService (lazy model initialization + two recognition     *)
(*     entry points), called by a bounded number of concurrent callers;    *)
(*   - the App component (start-up initialization, the two recognition     *)
(*     handlers, the input-mode toggle);                                   *)
(*   - the ImageSelector and Camera components as far as they call the     *)
(*     App handlers.                                                       *)
(* A backend command (Tauri `invoke`) is an asynchronous call: one action  *)
(* issues it, a later action resumes the awaiting function with the        *)
(* backend's answer (resolve) or error (reject).  JavaScript runs each     *)
(* stretch between two awaits atomically, so such a stretch is one action. *)
(***************************************************************************)
EXTENDS Integers, Sequences, FiniteSets, TLC

VARIABLES
  \* ---- RecognitionService ----
  svcModelInitialized, \* RecognitionService.modelInitialized
  svc,                 \* per caller: the call it is running on the service
  svcCalls,            \* number of service calls started so far
  svcInitInvokes,      \* number of 'init_model' invocations issued by the service
  svcLoads,            \* number of service 'init_model' invocations that resolved
  svcRaced,            \* a service call has started while another was in flight
  \* ---- App ----
  inputMode, results, isLoading, errorMessage, modelInitialized, selectedImage,
  appInitPc,           \* position of the start-up initModel() of the effect
  appInitInvokes,      \* number of 'init_model' invocations issued by App
  appLoads,            \* number of App 'init_model' invocations that resolved
  reqs,                \* recognition commands issued by App, in start order,
                       \* each with its state and whether the mode was
                       \* switched since it was issued
  handlerCalls,        \* number of handler calls (image selected / capture)
  \* ---- ImageSelector ----
  selectorIsLoading,   \* ImageSelector.isLoading of the mounted instance
  sels,                \* handleSelectImage invocations in flight
  \* ---- ImageSelector with the dialog retry loop ----
  retry,               \* the component's state and its handleSelectImage call
  client               \* which client of the backend the behaviour exercises

svcVars == <<svcModelInitialized, svc, svcCalls, svcInitInvokes, svcLoads,
             svcRaced>>
appVars == <<inputMode, results, isLoading, errorMessage, modelInitialized,
             selectedImage, appInitPc, appInitInvokes, appLoads, reqs,
             handlerCalls>>
selVars == <<selectorIsLoading, sels>>
vars == <<svcModelInitialized, svc, svcCalls, svcInitInvokes, svcLoads, svcRaced,
          inputMode, results, isLoading, errorMessage, modelInitialized,
          selectedImage, appInitPc, appInitInvokes, appLoads, reqs,
          handlerCalls,
          selectorIsLoading, sels, retry, client>>

----
\* Bounds of the model.
NCallers == 2          \* concurrent callers of RecognitionService
MaxSvcCalls == 3       \* service calls started in one behaviour
MaxRequests == 2       \* handler calls made on App in one behaviour
MaxSelections == 2     \* handleSelectImage invocations in flight at once
MaxOpens == 5          \* file dialogs opened by one handleSelectImage call

Callers == 1..NCallers

----
\* Values.
Null == "null"
Camera == "camera"
Gallery == "gallery"

\* Backend commands.
CmdRecognizeImage == "recognize_image"
CmdRecognizeImageData == "recognize_image_data"

\* Errors the backend rejects with.
InitError == "init_error"
RecogError == "recog_error"

\* What a resolved recognition command answers: a non-empty ranked list that
\* is a function of the command and of the payload it was given.
Classify(cmd, arg) == << [label |-> <<cmd, arg>>, confidence |-> 1] >>

\* Outcome of a service call (the settled promise).
Pending == [st |-> "pending"]
Fulfilled(v) == [st |-> "fulfilled", value |-> v]
Rejected(e) == [st |-> "rejected", error |-> e]
Void == "undefined"

----
(***************************************************************************)
(* RecognitionService                                                      *)
(***************************************************************************)
SvcOps == {"initModel", "recognizeImage", "recognizeImageData"}

\* The backend command of a recognition entry point.
SvcCmd(op) == IF op = "recognizeImage" THEN CmdRecognizeImage
              ELSE CmdRecognizeImageData

\* The image a caller passes: caller c always sends its own image c.
SvcArg(c) == <<"image", c>>

\* A call record: position, entry point, settled promise, and what the call
\* has done so far (uninitAtCall: modelInitialized was false when it started;
\* inits/recogs: 'init_model' / recognition commands it has issued;
\* initRes/recogRes: how the backend answered them; overlapped: another call
\* was in flight at some time during this one).
IdleCall == [pc |-> "idle", op |-> "none", ret |-> Pending,
             uninitAtCall |-> FALSE, inits |-> 0, recogs |-> 0,
             initRes |-> "none", recogRes |-> "none", overlapped |-> FALSE]

\* Variant of SvcAlreadyInitialized: initModel without its early return.
SvcAlreadyInitialized_Never == FALSE

\* `if (this.modelInitialized) return;` of initModel.
SvcAlreadyInitialized == svcModelInitialized

\* `if (!this.modelInitialized) await this.initModel();` of the entry points.
SvcNeedsInit == ~svcModelInitialized

\* A step of the service leaves the App alone.
SvcStep ==
  client = "RecognitionService" /\ UNCHANGED <<client, appVars, selVars, retry>>

\* Some caller is inside a call.
SvcBusy == \E d \in Callers : svc[d].pc \in {"awaitInit", "awaitRecog"}

\* A caller may start a call when it is not inside one.
SvcFree(c) == svc[c].pc \in {"idle", "returned"} /\ svcCalls < MaxSvcCalls

\* The record of a call of entry point op that starts now.
NewCall(op) == [IdleCall EXCEPT !.op = op, !.uninitAtCall = ~svcModelInitialized,
                                !.overlapped = SvcBusy]

\* The calls in flight, once caller c has started call r beside them.
Started(c, r) ==
  [d \in Callers |->
     IF d = c THEN r
     ELSE IF svc[d].pc \in {"awaitInit", "awaitRecog"}
            THEN [svc[d] EXCEPT !.overlapped = TRUE]
            ELSE svc[d]]

\* initModel(), up to its first await (or its immediate return).
SvcInitModel_Call(c) ==
  /\ SvcStep
  /\ SvcFree(c)
  /\ svcCalls' = svcCalls + 1
  /\ svcRaced' = (svcRaced \/ SvcBusy)
  /\ IF SvcAlreadyInitialized
       THEN /\ svc' = Started(c,
                        [NewCall("initModel") EXCEPT !.pc = "returned",
                                                     !.ret = Fulfilled(Void)])
            /\ UNCHANGED svcInitInvokes
       ELSE /\ svc' = Started(c,
                        [NewCall("initModel") EXCEPT !.pc = "awaitInit",
                                                     !.inits = 1])
            /\ svcInitInvokes' = svcInitInvokes + 1
  /\ UNCHANGED <<svcModelInitialized, svcLoads>>

\* recognizeImage(imagePath) / recognizeImageData(imageData), up to the first
\* await: the nested initModel() call when needed, else the recognition command.
SvcRecognize_Call(c, op) ==
  /\ SvcStep
  /\ SvcFree(c)
  /\ svcCalls' = svcCalls + 1
  /\ svcRaced' = (svcRaced \/ SvcBusy)
  /\ IF SvcNeedsInit /\ ~SvcAlreadyInitialized
       THEN /\ svc' = Started(c,
                        [NewCall(op) EXCEPT !.pc = "awaitInit", !.inits = 1])
            /\ svcInitInvokes' = svcInitInvokes + 1
       ELSE \* initialized, or the nested initModel() returned at once
            /\ svc' = Started(c,
                        [NewCall(op) EXCEPT !.pc = "awaitRecog", !.recogs = 1])
            /\ UNCHANGED svcInitInvokes
  /\ UNCHANGED <<svcModelInitialized, svcLoads>>

\* Variants of SvcFlagAfterInitFailed: the catch block marks the service
\* initialized, or resets the flag.
SvcFlagAfterInitFailed_Set == TRUE
SvcFlagAfterInitFailed_Reset == FALSE

\* What initModel does with the flag when 'init_model' resolved / rejected.
SvcFlagAfterInitOk == TRUE
SvcFlagAfterInitFailed == svcModelInitialized

\* The call after `this.modelInitialized = true`: an initModel() call returns,
\* a recognition entry point goes on to its recognition command.
SvcAfterInit(c) ==
  IF svc[c].op = "initModel"
    THEN [svc[c] EXCEPT !.pc = "returned", !.ret = Fulfilled(Void)]
    ELSE [svc[c] EXCEPT !.pc = "awaitRecog", !.recogs = @ + 1]

\* 'init_model' resolved.
SvcInit_Resolve(c) ==
  /\ SvcStep
  /\ svc[c].pc = "awaitInit"
  /\ svcModelInitialized' = SvcFlagAfterInitOk
  /\ svcLoads' = svcLoads + 1
  /\ svc' = [svc EXCEPT ![c] = [SvcAfterInit(c) EXCEPT !.initRes = "ok"]]
  /\ UNCHANGED <<svcCalls, svcInitInvokes, svcRaced>>

\* Variant of SvcInitCatch: the error is logged and swallowed, and a
\* recognition entry point goes on to its recognition command.
SvcInitCatch_Swallow(c, e) ==
  IF svc[c].op = "initModel"
    THEN [svc[c] EXCEPT !.pc = "returned", !.ret = Fulfilled(Void)]
    ELSE [svc[c] EXCEPT !.pc = "awaitRecog", !.recogs = @ + 1]

\* The call after the catch block of initModel (log, `throw error`): the
\* rejection passes through a recognition entry point, whose await of
\* initModel() is outside its try block.
SvcInitCatch(c, e) == [svc[c] EXCEPT !.pc = "returned", !.ret = Rejected(e)]

\* 'init_model' rejected.
SvcInit_Reject(c) ==
  /\ SvcStep
  /\ svc[c].pc = "awaitInit"
  /\ svcModelInitialized' = SvcFlagAfterInitFailed
  /\ svc' = [svc EXCEPT ![c] =
               [SvcInitCatch(c, InitError) EXCEPT !.initRes = "err"]]
  /\ UNCHANGED <<svcCalls, svcInitInvokes, svcLoads, svcRaced>>

\* Variant of SvcRecogReturn: the answer is kept in one slot shared by all
\* calls, so a call returns whatever the backend answered last (here: the
\* answer to the first caller's image).
SvcRecogReturn_Shared(c) == Fulfilled(Classify(SvcCmd(svc[c].op), SvcArg(1)))

\* `return results` of a recognition entry point: what the backend answered
\* to this call's command.
SvcRecogReturn(c) == Fulfilled(Classify(SvcCmd(svc[c].op), SvcArg(c)))

\* The recognition command resolved.
SvcRecog_Resolve(c) ==
  /\ SvcStep
  /\ svc[c].pc = "awaitRecog"
  /\ svc' = [svc EXCEPT ![c] = [@ EXCEPT !.pc = "returned",
                                         !.ret = SvcRecogReturn(c),
                                         !.recogRes = "ok"]]
  /\ UNCHANGED <<svcModelInitialized, svcCalls, svcInitInvokes, svcLoads,
                 svcRaced>>

\* The call after the catch block of a recognition entry point (log,
\* `throw error`).
SvcRecogCatch(c, e) == [svc[c] EXCEPT !.pc = "returned", !.ret = Rejected(e)]

\* The recognition command rejected.
SvcRecog_Reject(c) ==
  /\ SvcStep
  /\ svc[c].pc = "awaitRecog"
  /\ svc' = [svc EXCEPT ![c] =
               [SvcRecogCatch(c, RecogError) EXCEPT !.recogRes = "err"]]
  /\ UNCHANGED <<svcModelInitialized, svcCalls, svcInitInvokes, svcLoads,
                 svcRaced>>

SvcInit ==
  /\ svcModelInitialized = FALSE
  /\ svc = [c \in Callers |-> IdleCall]
  /\ svcCalls = 0
  /\ svcInitInvokes = 0
  /\ svcLoads = 0
  /\ svcRaced = FALSE

----
(***************************************************************************)
(* App                                                                     *)
(***************************************************************************)
MsgInitFailed == "Failed to initialize model: "
MsgNotInitialized == "Model not initialized. Please wait and try again."
MsgRecognitionFailed == "Recognition failed: "

\* What the file dialog can return: plain file paths and an Android content
\* reference.
FilePaths == {"/pictures/a.jpg", "/pictures/b.jpg"}
ContentUris == {"content://media/1"}
Paths == FilePaths \cup ContentUris

\* Screenshots the webcam can deliver.
Screenshots == {"data:image/jpeg;base64,shot"}

\* `imagePath.startsWith('content://')`.
StartsWithContent(p) == p \in ContentUris

\* The backend's read_content_uri: the base64 text of the referenced bytes.
ReadContentUri(uri) == <<"base64", uri>>

\* `data:image/jpeg;base64,${base64Data}`.
DataUrl(base64Data) == <<"data:image/jpeg;base64,", base64Data>>

\* Variant of NotInitialized: the handlers without their guard.
NotInitialized_Never(mi) == FALSE

\* The `if (!modelInitialized)` test of both handlers, on the value of
\* modelInitialized the handler's closure holds.
NotInitialized(mi) == ~mi

\* The argument handleImageSelected gives 'recognize_image': its first
\* parameter; the handler declares no second parameter, so the data URL the
\* ImageSelector passes along is dropped.
ImageSelectedPayload(imagePath, imageData) == imagePath

\* A step of the App and its components leaves the service alone.
AppStep == client = "App" /\ UNCHANGED <<client, svcVars, retry>>

\* Start-up effect: initModel() up to `await invoke('init_model')`.
AppInitModel_Start ==
  /\ AppStep
  /\ appInitPc = "start"
  /\ isLoading' = TRUE
  /\ appInitPc' = "await"
  /\ UNCHANGED selVars
  /\ appInitInvokes' = appInitInvokes + 1
  /\ UNCHANGED <<inputMode, results, errorMessage, modelInitialized,
                 selectedImage, appLoads, reqs, handlerCalls>>

\* modelInitialized after the start-up 'init_model' resolved / rejected.
AppFlagAfterInitOk == TRUE
AppFlagAfterInitFailed == modelInitialized

\* 'init_model' resolved.
AppInitModel_Resolve ==
  /\ AppStep
  /\ appInitPc = "await"
  /\ UNCHANGED selVars
  /\ modelInitialized' = AppFlagAfterInitOk
  /\ errorMessage' = Null
  /\ isLoading' = FALSE
  /\ appInitPc' = "done"
  /\ appLoads' = appLoads + 1
  /\ UNCHANGED <<inputMode, results, selectedImage, appInitInvokes, reqs,
                 handlerCalls>>

\* 'init_model' rejected.
AppInitModel_Reject ==
  /\ AppStep
  /\ appInitPc = "await"
  /\ UNCHANGED selVars
  /\ modelInitialized' = AppFlagAfterInitFailed
  /\ errorMessage' = MsgInitFailed
  /\ isLoading' = FALSE
  /\ appInitPc' = "done"
  /\ UNCHANGED <<inputMode, results, selectedImage, appInitInvokes, appLoads,
                 reqs, handlerCalls>>

\* The early return of both handlers.
HandlerRejects ==
  /\ errorMessage' = MsgNotInitialized
  /\ UNCHANGED <<results, isLoading, selectedImage, reqs>>

\* handleImageSelected(imagePath, imageData) up to its await, run with a
\* closure in which modelInitialized is mi.
HandleImageSelected(imagePath, imageData, mi) ==
  /\ handlerCalls' = handlerCalls + 1
  /\ IF NotInitialized(mi)
       THEN HandlerRejects
       ELSE /\ isLoading' = TRUE
            /\ selectedImage' = imagePath
            /\ results' = <<>>
            /\ reqs' = Append(reqs,
                 [cmd |-> CmdRecognizeImage,
                  arg |-> ImageSelectedPayload(imagePath, imageData),
                  st |-> "pending", beforeSwitch |-> FALSE])
            /\ UNCHANGED errorMessage
  /\ UNCHANGED <<inputMode, modelInitialized, appInitPc, appInitInvokes,
                 appLoads>>

\* handleCameraCapture(imageData) up to its await.
HandleCameraCapture(imageData, mi) ==
  /\ handlerCalls' = handlerCalls + 1
  /\ IF NotInitialized(mi)
       THEN HandlerRejects
       ELSE /\ isLoading' = TRUE
            /\ results' = <<>>
            /\ reqs' = Append(reqs,
                 [cmd |-> CmdRecognizeImageData, arg |-> imageData,
                  st |-> "pending", beforeSwitch |-> FALSE])
            /\ UNCHANGED <<errorMessage, selectedImage>>
  /\ UNCHANGED <<inputMode, modelInitialized, appInitPc, appInitInvokes,
                 appLoads>>

\* Variant of ResultsAfterFailure: the catch block leaves results alone.
ResultsAfterFailure_Keep == results

\* What the handlers show after their recognition command rejected.
ResultsAfterFailure == <<>>
ErrorAfterFailure == MsgRecognitionFailed

\* The recognition command of request i resolved: the rest of the try block
\* and the finally block.
AppRecog_Resolve(i) ==
  /\ AppStep
  /\ reqs[i].st = "pending"
  /\ UNCHANGED selVars
  /\ results' = Classify(reqs[i].cmd, reqs[i].arg)
  /\ errorMessage' = Null
  /\ isLoading' = FALSE
  /\ reqs' = [reqs EXCEPT ![i].st = "ok"]
  /\ UNCHANGED <<inputMode, modelInitialized, selectedImage, appInitPc,
                 appInitInvokes, appLoads, handlerCalls>>

\* The recognition command of request i rejected: catch and finally.
AppRecog_Reject(i) ==
  /\ AppStep
  /\ reqs[i].st = "pending"
  /\ UNCHANGED selVars
  /\ errorMessage' = ErrorAfterFailure
  /\ results' = ResultsAfterFailure
  /\ isLoading' = FALSE
  /\ reqs' = [reqs EXCEPT ![i].st = "err"]
  /\ UNCHANGED <<inputMode, modelInitialized, selectedImage, appInitPc,
                 appInitInvokes, appLoads, handlerCalls>>

\* The other mode.
OtherMode(m) == IF m = Camera THEN Gallery ELSE Camera

\* toggleInputMode.  Leaving the gallery unmounts the ImageSelector: state
\* updates of its calls still in flight are dropped, and the instance mounted
\* later starts with isLoading = false.  The commands issued so far are from
\* now on commands of before the switch (beforeSwitch, a history field).
ToggleInputMode ==
  /\ AppStep
  /\ appInitPc # "start"
  /\ inputMode' = OtherMode(inputMode)
  /\ results' = <<>>
  /\ selectedImage' = Null
  /\ sels' = [i \in 1..Len(sels) |-> [sels[i] EXCEPT !.orphan = TRUE]]
  /\ selectorIsLoading' = FALSE
  /\ reqs' = [i \in 1..Len(reqs) |-> [reqs[i] EXCEPT !.beforeSwitch = TRUE]]
  /\ UNCHANGED <<isLoading, errorMessage, modelInitialized, appInitPc,
                 appInitInvokes, appLoads, handlerCalls>>

----
(***************************************************************************)
(* Camera and ImageSelector                                                *)
(***************************************************************************)
\* Camera.handleCapture: a screenshot, when there is one, goes to onCapture,
\* which is the handleCameraCapture of the current render.
Camera_Capture(shot) ==
  /\ AppStep
  /\ appInitPc # "start"
  /\ inputMode = Camera
  /\ handlerCalls < MaxRequests
  /\ HandleCameraCapture(shot, modelInitialized)
  /\ UNCHANGED selVars

\* sels without its i-th element.
Without(s, i) == SubSeq(s, 1, i - 1) \o SubSeq(s, i + 1, Len(s))

\* The finally block of handleSelectImage, setIsLoading(false), for call i.
SelectorFinally(i) ==
  /\ sels' = Without(sels, i)
  /\ selectorIsLoading' = IF sels[i].orphan THEN selectorIsLoading ELSE FALSE

\* A click on the select button (disabled while isLoading): handleSelectImage
\* up to `await open(...)`.  The call keeps the onImageSelected of the render
\* it was created in, and with it that render's modelInitialized.
Selector_Click ==
  /\ AppStep
  /\ appInitPc # "start"
  /\ inputMode = Gallery
  /\ ~selectorIsLoading
  /\ Len(sels) < MaxSelections
  /\ selectorIsLoading' = TRUE
  /\ sels' = Append(sels, [pc |-> "dialog", mi |-> modelInitialized,
                           path |-> Null, orphan |-> FALSE])
  /\ UNCHANGED appVars

\* The dialog was cancelled (open resolved with null) or open rejected.
Selector_NoSelection(i) ==
  /\ AppStep
  /\ sels[i].pc = "dialog"
  /\ SelectorFinally(i)
  /\ UNCHANGED appVars

\* The dialog returned a plain file path: onImageSelected(imagePath).
Selector_FileSelected(i, p) ==
  /\ AppStep
  /\ sels[i].pc = "dialog"
  /\ ~StartsWithContent(p)
  /\ handlerCalls < MaxRequests
  /\ HandleImageSelected(p, Null, sels[i].mi)
  /\ SelectorFinally(i)

\* The dialog returned a content reference: invoke('read_content_uri').
Selector_ContentSelected(i, p) ==
  /\ AppStep
  /\ sels[i].pc = "dialog"
  /\ StartsWithContent(p)
  /\ sels' = [sels EXCEPT ![i] = [@ EXCEPT !.pc = "reading", !.path = p]]
  /\ UNCHANGED <<selectorIsLoading, appVars>>

\* read_content_uri resolved: onImageSelected(imagePath, dataUrl).
Selector_ReadResolved(i) ==
  /\ AppStep
  /\ sels[i].pc = "reading"
  /\ handlerCalls < MaxRequests
  /\ HandleImageSelected(sels[i].path, DataUrl(ReadContentUri(sels[i].path)),
                         sels[i].mi)
  /\ SelectorFinally(i)

\* read_content_uri rejected: the inner catch alerts.
Selector_ReadRejected(i) ==
  /\ AppStep
  /\ sels[i].pc = "reading"
  /\ SelectorFinally(i)
  /\ UNCHANGED appVars

----
(***************************************************************************)
(* ImageSelector with the file-dialog retry loop                           *)
(***************************************************************************)
\* `const maxAttempts = 3`.
maxAttempts == 3

\* `let selected = null`.
NoSelection == [type |-> "null", length |-> 0]

\* Selections the dialog can resolve with: null when it was cancelled, a
\* path, or an array of paths (empty or not).  `length` is the number of
\* paths.
DialogSelections ==
  {NoSelection, [type |-> "string", length |-> 1],
   [type |-> "array", length |-> 0], [type |-> "array", length |-> 1]}

\* JavaScript truthiness of a selection: null is falsy, a path and any array
\* (the empty one too) are truthy.
Truthy(selected) == selected.type # "null"

\* `typeof selected === 'string'` / `Array.isArray(selected)`.
IsString(selected) == selected.type = "string"
IsArray(selected) == selected.type = "array"

\* The component after mounting, before any click.
RetryInit == [pc |-> "idle", isLoading |-> FALSE, isMobileDevice |-> FALSE,
              platformChecked |-> FALSE, selected |-> NoSelection,
              attempts |-> 0,
              opens |-> 0, calls |-> 0]

\* A step of this component leaves the service and the App alone.
RetryStep ==
  client = "ImageSelectorRetry" /\ UNCHANGED <<client, svcVars, appVars, selVars>>

\* `while (!selected && attempts < maxAttempts)`.
LoopContinues(r) == ~Truthy(r.selected) /\ r.attempts < maxAttempts

\* `if (selected && typeof selected === 'string') ... else if
\* (Array.isArray(selected) && selected.length > 0) ...`: onImageSelected is
\* called.
CallsOnImageSelected(selected) ==
  \/ Truthy(selected) /\ IsString(selected)
  \/ IsArray(selected) /\ selected.length > 0

\* The call goes on from the loop test: into `await open(...)` of the next
\* iteration, or past the loop to the onImageSelected call and the finally
\* block.
FromLoopTest(r) ==
  IF LoopContinues(r)
    THEN [r EXCEPT !.pc = "dialog", !.opens = @ + 1]
    ELSE [r EXCEPT !.pc = "idle", !.isLoading = FALSE,
                   !.calls = IF CallsOnImageSelected(r.selected)
                               THEN @ + 1 ELSE @]

\* The model follows a call only up to MaxOpens dialogs.
WithinOpens(r) == LoopContinues(r) => r.opens < MaxOpens

\* The mount effect: `platform()` has answered.
RetrySel_CheckPlatform(mobile) ==
  /\ RetryStep
  /\ ~retry.platformChecked
  /\ retry' = [retry EXCEPT !.platformChecked = TRUE, !.isMobileDevice = mobile]

\* A click on the select button (disabled while isLoading): handleSelectImage
\* up to its first await, the permission request on a mobile device, else the
\* first dialog.
RetrySel_Click ==
  /\ RetryStep
  /\ retry.pc = "idle" /\ ~retry.isLoading
  /\ LET r == [retry EXCEPT !.isLoading = TRUE, !.selected = NoSelection,
                            !.attempts = 0, !.opens = 0, !.calls = 0]
     IN  retry' = IF retry.isMobileDevice THEN [r EXCEPT !.pc = "permission"]
                  ELSE FromLoopTest(r)

\* invoke('request_storage_permission') resolved or rejected: the inner
\* catch only logs, the call goes on to the loop either way.
RetrySel_PermissionSettled ==
  /\ RetryStep
  /\ retry.pc = "permission"
  /\ retry' = FromLoopTest(retry)

\* open() resolved: `selected = await open(...)`, `attempts++`, loop test.
RetrySel_DialogResolved(selection) ==
  /\ RetryStep
  /\ retry.pc = "dialog"
  /\ LET r == [retry EXCEPT !.selected = selection, !.attempts = @ + 1]
     IN  /\ WithinOpens(r)
         /\ retry' = FromLoopTest(r)

\* open() rejected: the catch logs and awaits the 500 ms delay.
RetrySel_DialogRejected ==
  /\ RetryStep
  /\ retry.pc = "dialog"
  /\ retry' = [retry EXCEPT !.pc = "delay"]

\* The delay is over: loop test.
RetrySel_DelayDone ==
  /\ RetryStep
  /\ retry.pc = "delay"
  /\ WithinOpens(retry)
  /\ retry' = FromLoopTest(retry)

----
\* App.tsx calls the backend itself and never goes through the service module,
\* so the two are alternative clients of the backend that share no state; the
\* ImageSelector with the retry loop is a third component with a state of its
\* own.  A behaviour exercises the one named by `client`.
Clients == {"App", "RecognitionService", "ImageSelectorRetry"}

Init ==
  /\ client \in Clients
  /\ SvcInit
  /\ inputMode = Gallery /\ results = <<>> /\ isLoading = FALSE
  /\ errorMessage = Null /\ modelInitialized = FALSE /\ selectedImage = Null
  /\ appInitPc = "start" /\ appInitInvokes = 0 /\ appLoads = 0
  /\ reqs = <<>>
  /\ handlerCalls = 0
  /\ selectorIsLoading = FALSE /\ sels = <<>>
  /\ retry = RetryInit

Next ==
  \/ \E c \in Callers : SvcInitModel_Call(c)
  \/ \E c \in Callers, op \in SvcOps \ {"initModel"} : SvcRecognize_Call(c, op)
  \/ \E c \in Callers : SvcInit_Resolve(c)
  \/ \E c \in Callers : SvcInit_Reject(c)
  \/ \E c \in Callers : SvcRecog_Resolve(c)
  \/ \E c \in Callers : SvcRecog_Reject(c)
  \/ AppInitModel_Start
  \/ AppInitModel_Resolve
  \/ AppInitModel_Reject
  \/ \E i \in 1..Len(reqs) : AppRecog_Resolve(i)
  \/ \E i \in 1..Len(reqs) : AppRecog_Reject(i)
  \/ ToggleInputMode
  \/ \E shot \in Screenshots : Camera_Capture(shot)
  \/ Selector_Click
  \/ \E i \in 1..Len(sels) : Selector_NoSelection(i)
  \/ \E i \in 1..Len(sels), p \in Paths : Selector_FileSelected(i, p)
  \/ \E i \in 1..Len(sels), p \in Paths : Selector_ContentSelected(i, p)
  \/ \E i \in 1..Len(sels) : Selector_ReadResolved(i)
  \/ \E i \in 1..Len(sels) : Selector_ReadRejected(i)
  \/ \E mobile \in BOOLEAN : RetrySel_CheckPlatform(mobile)
  \/ RetrySel_Click
  \/ RetrySel_PermissionSettled
  \/ \E selection \in DialogSelections : RetrySel_DialogResolved(selection)
  \/ RetrySel_DialogRejected
  \/ RetrySel_DelayDone

Spec == Init /\ [][Next]_vars

----
(***************************************************************************)
(* Properties                                                              *)
(***************************************************************************)
RecogOps == {"recognizeImage", "recognizeImageData"}

\* C1: initModel is idempotent.  A service call that starts when
\* modelInitialized is already true issues no 'init_model' (an initModel()
\* call has then returned successfully at once); the flag is true only after
\* a successful load; and as long as calls come one after the other (no call
\* ever started while another was in flight) at most one load succeeds.
C1_InitModelIdempotent ==
  /\ \A c \in Callers :
       (svc[c].op # "none" /\ ~svc[c].uninitAtCall) => svc[c].inits = 0
  /\ \A c \in Callers :
       (svc[c].op = "initModel" /\ ~svc[c].uninitAtCall)
         => (svc[c].pc = "returned" /\ svc[c].ret = Fulfilled(Void))
  /\ svcModelInitialized => svcLoads >= 1
  /\ ~svcRaced => svcLoads <= 1

\* C1 witness: after one successful load, a later initModel() call, made with
\* no other call in flight, has returned success.
C1_Witness ==
  /\ svcLoads = 1 /\ ~svcRaced /\ svcCalls >= 2
  /\ \E c \in Callers :
       /\ svc[c].op = "initModel" /\ ~svc[c].uninitAtCall
       /\ svc[c].pc = "returned" /\ svc[c].ret = Fulfilled(Void)

\* C2: under a first-call race exactly one 'init_model' proceeds: never two
\* in flight at once, never two loads performed.
C2_SingleLoadUnderRace ==
  /\ Cardinality({c \in Callers : svc[c].pc = "awaitInit"}) <= 1
  /\ svcLoads <= 1

\* A step in which caller c's 'init_model' comes back without a load.
SvcInitFailedStep(c) ==
  svc[c].pc = "awaitInit" /\ svc'[c].pc # "awaitInit" /\ svcLoads' = svcLoads

\* A step in which App's start-up 'init_model' comes back without a load.
AppInitFailedStep ==
  appInitPc = "await" /\ appInitPc' # "await" /\ appLoads' = appLoads

\* C3: a failed initialization leaves modelInitialized as it was (false, when
\* no other attempt had succeeded), in the service and in App; the failure
\* reaches the caller (the rejected promise, App's errorMessage); and no
\* 'init_model' is issued by the failure itself: the service issues one only
\* in the step that starts a call, App only in its mount effect.
C3_InitFailureNoRetry ==
  [][ /\ \A c \in Callers : SvcInitFailedStep(c) =>
           /\ svcModelInitialized' = svcModelInitialized
           /\ svc'[c].pc = "returned"
           /\ svc'[c].ret = Rejected(InitError)
           /\ svc'[c].recogs = 0
           /\ svcInitInvokes' = svcInitInvokes
      /\ AppInitFailedStep =>
           /\ modelInitialized' = FALSE
           /\ errorMessage' = MsgInitFailed
           /\ appInitPc' = "done"
           /\ appInitInvokes' = appInitInvokes
      /\ svcInitInvokes' # svcInitInvokes =>
           /\ svcCalls' = svcCalls + 1
           /\ svcInitInvokes' = svcInitInvokes + 1
      /\ appInitInvokes' # appInitInvokes => appInitPc = "start"
    ]_vars

\* C3 witness: an initialization has failed, its caller holds the error, and
\* the service is uninitialized.
C3_Witness ==
  /\ ~svcModelInitialized
  /\ svcInitInvokes >= 1
  /\ \E c \in Callers : svc[c].initRes = "err" /\ svc[c].ret = Rejected(InitError)

\* C4: the initialized flags are false at start, never go from true to false,
\* and go from false to true only in a step in which an 'init_model'
\* invocation resolves.
C4_InitializedMonotonic ==
  /\ [](svcCalls = 0 => ~svcModelInitialized)
  /\ [](appInitPc = "start" => ~modelInitialized)
  /\ [][ /\ svcModelInitialized => svcModelInitialized'
         /\ modelInitialized => modelInitialized'
         /\ (~svcModelInitialized /\ svcModelInitialized')
              => svcLoads' = svcLoads + 1
         /\ (~modelInitialized /\ modelInitialized')
              => appLoads' = appLoads + 1
       ]_vars

\* C4 witness: the service is initialized, and stays so while one call holds
\* a failed initialization and another a failed recognition.
C4_Witness ==
  /\ svcModelInitialized
  /\ \E c \in Callers : svc[c].initRes = "err"
  /\ \E c \in Callers : svc[c].recogRes = "err"

\* C5: a recognition call that starts uninitialized issues 'init_model'
\* first and its recognition command only after its own 'init_model'
\* resolved; when its 'init_model' is rejected it issues no recognition
\* command and returns that error.
C5_LazyInitBeforeRecognition ==
  \A c \in Callers :
    (svc[c].op \in RecogOps /\ svc[c].uninitAtCall) =>
      /\ svc[c].inits = 1
      /\ svc[c].recogs > 0 => svc[c].initRes = "ok"
      /\ svc[c].initRes = "err" =>
           /\ svc[c].recogs = 0
           /\ svc[c].pc = "returned"
           /\ svc[c].ret = Rejected(InitError)

\* C5 witness: of two recognition calls that started uninitialized, one
\* failed to initialize and returned the error, the other initialized and
\* then issued its recognition command.
C5_Witness ==
  \E c, d \in Callers :
    /\ svc[c].op \in RecogOps /\ svc[c].uninitAtCall
    /\ svc[c].initRes = "err" /\ svc[c].recogs = 0
    /\ svc[d].op \in RecogOps /\ svc[d].uninitAtCall
    /\ svc[d].initRes = "ok" /\ svc[d].recogs = 1

\* C6: a request that reaches an App handler while modelInitialized is false
\* (the start-up initialization still in progress, or failed) is not turned
\* down with 'Model not initialized'.
C6_NoImmediateNotInitialized ==
  [][ (handlerCalls' = handlerCalls + 1 /\ ~modelInitialized)
        => errorMessage' # MsgNotInitialized ]_vars

\* C7: a failed recognition is surfaced.  A service call issues its
\* recognition command at most once and, when the command is rejected,
\* returns that error; in App the step that completes a failed recognition
\* leaves errorMessage set and results empty, and issues no new command.
C7_RecognitionFailureSurfaced ==
  /\ [](\A c \in Callers :
          /\ svc[c].recogs <= 1
          /\ svc[c].recogRes = "err" =>
               (svc[c].pc = "returned" /\ svc[c].ret = Rejected(RecogError)))
  /\ [][ \A i \in 1..Len(reqs) :
           (reqs[i].st = "pending" /\ Len(reqs') = Len(reqs)
              /\ reqs'[i].st = "err")
             => /\ errorMessage' # Null
                /\ results' = <<>>
                /\ reqs' = [reqs EXCEPT ![i].st = "err"]
       ]_vars

\* C7 witness: one request of App has succeeded, an overlapping one has then
\* failed, and App shows the error and no results.
C7_Witness ==
  /\ Len(reqs) = 2
  /\ reqs[1].st = "ok" /\ reqs[2].st = "err"
  /\ errorMessage = MsgRecognitionFailed /\ results = <<>>

\* C8: the recognition command that follows the selection of a content://
\* image is given the data read_content_uri returned, never the content://
\* reference itself.
C8_ResolvedContentReachesRecognition ==
  \A i \in 1..Len(reqs) : ~StartsWithContent(reqs[i].arg)

\* C9: recognition calls made on an initialized service are independent.
\* Each returns the answer (or the error) of its own command, and no step of
\* such a call (its start, its return) changes modelInitialized or what
\* another caller's call holds.
C9_RecognitionCallsIndependent ==
  /\ [](\A c \in Callers : svc[c].op \in RecogOps =>
          /\ svc[c].recogRes = "ok" =>
               svc[c].ret = Fulfilled(Classify(SvcCmd(svc[c].op), SvcArg(c)))
          /\ svc[c].recogRes = "err" => svc[c].ret = Rejected(RecogError))
  /\ [][ \A c \in Callers :
           (svc'[c].op \in RecogOps /\ ~svc'[c].uninitAtCall
              /\ svc'[c].pc # svc[c].pc)
             => /\ svcModelInitialized' = svcModelInitialized
                /\ \A d \in Callers \ {c} :
                     [svc'[d] EXCEPT !.overlapped = FALSE]
                       = [svc[d] EXCEPT !.overlapped = FALSE]
       ]_vars

\* C9 witness: two recognition calls that started on an initialized service
\* and overlapped have both returned, each the answer of its own command.
C9_Witness ==
  \E c, d \in Callers :
    /\ c # d
    /\ svc[c].op \in RecogOps /\ ~svc[c].uninitAtCall /\ svc[c].overlapped
    /\ svc[d].op \in RecogOps /\ ~svc[d].uninitAtCall /\ svc[d].overlapped
    /\ svc[c].recogRes = "ok" /\ svc[d].recogRes = "ok"
    /\ svc[c].ret # svc[d].ret

\* C10: App issues a recognition command only after its 'init_model' has
\* resolved; a handler call made before that only sets errorMessage and
\* leaves results, isLoading and selectedImage as they were.
C10_NoRecognitionBeforeInit ==
  /\ [](Len(reqs) > 0 => (modelInitialized /\ appLoads >= 1))
  /\ [][ handlerCalls' = handlerCalls + 1 =>
           /\ Len(reqs') > Len(reqs) => appLoads >= 1
           /\ ~modelInitialized =>
                /\ reqs' = reqs
                /\ errorMessage' = MsgNotInitialized
                /\ UNCHANGED <<results, isLoading, selectedImage>>
       ]_vars

\* C10 witness: a request made while the start-up initialization was in
\* flight has been turned down: no command issued, the loading flag of the
\* initialization still set.
C10_Witness ==
  /\ appInitPc = "await" /\ handlerCalls >= 1
  /\ reqs = <<>> /\ errorMessage = MsgNotInitialized
  /\ isLoading /\ results = <<>> /\ selectedImage = Null

\* A backend command issued by App is in flight.
AppInFlight ==
  \/ appInitPc = "await"
  \/ \E i \in 1..Len(reqs) : reqs[i].st = "pending"

\* C11: App's isLoading is true exactly while an 'init_model',
\* 'recognize_image' or 'recognize_image_data' invocation of App is in
\* flight.
C11_LoadingIffInFlight == isLoading <=> AppInFlight

\* What a completed request shows: its results and its error message.
ShownResults(r) == IF r.st = "ok" THEN Classify(r.cmd, r.arg) ELSE <<>>
ShownError(r) == IF r.st = "ok" THEN Null ELSE MsgRecognitionFailed

\* Request i completes in this step and no request is pending after it.
LastCompletion(i) ==
  /\ reqs[i].st = "pending"
  /\ Len(reqs') = Len(reqs)
  /\ reqs'[i].st # "pending"
  /\ \A j \in 1..Len(reqs') : reqs'[j].st # "pending"

\* C12: when the last of several overlapping requests of App completes, the
\* results and the errorMessage shown are those of the request that was
\* started last, whatever the order in which the commands finished.
C12_LatestRequestWins ==
  [][ \A i \in 1..Len(reqs) :
        LastCompletion(i) =>
          /\ results' = ShownResults(reqs'[Len(reqs')])
          /\ errorMessage' = ShownError(reqs'[Len(reqs')])
    ]_vars

\* A step of toggleInputMode.
ToggleStep == inputMode' # inputMode

\* No recognition has been started since the input mode was last switched.
NothingStartedSinceSwitch ==
  /\ Len(reqs) > 0
  /\ \A i \in 1..Len(reqs) : reqs[i].beforeSwitch

\* C13: toggleInputMode switches inputMode between Camera and Gallery (a
\* second toggle restores the mode), empties results, sets selectedImage to
\* null and leaves modelInitialized, isLoading and errorMessage alone; after
\* it, results stay empty until a recognition is started in the new mode.
C13_ToggleClearsResults ==
  /\ [][ ToggleStep =>
           /\ inputMode' = OtherMode(inputMode)
           /\ OtherMode(inputMode') = inputMode
           /\ results' = <<>>
           /\ selectedImage' = Null
           /\ UNCHANGED <<modelInitialized, isLoading, errorMessage>>
       ]_vars
  /\ [](NothingStartedSinceSwitch => results = <<>>)

\* C14: the retry loop of handleSelectImage terminates.  One call opens the
\* dialog at most maxAttempts times, whether its attempts fail by throwing or
\* by returning no selection, calls onImageSelected at most once, and has
\* reset isLoading when it is over.
C14_RetryLoopBounded ==
  /\ retry.opens <= maxAttempts
  /\ retry.calls <= 1
  /\ retry.pc = "idle" => ~retry.isLoading
====
